---- MODULE Spec2Model ----
(***************************************************************************)
(* A model of web_to_doc.py: the WebToPdfConverter crawl driver (run,      *)
(* interactive_mode, parse_sitemap, process_page), its URL scope filter    *)
(* (is_valid_url, extract_links), its content filters                      *)
(* (check_content_filters, get_category) and its renderers (create_json,   *)
(* create_markdown).                                                       *)
(*                                                                         *)
(* Representation of Python values:                                        *)
(*  - a URL string is a record [host, segs, ext, frag]: host is            *)
(*    urlparse(url).netloc, the path is "/" + segs joined by "/" + ext     *)
(*    (segs = << >> is the empty path), frag is the text after "#"         *)
(*    ("" when the URL has no "#");                                        *)
(*  - a text string is a sequence of one-character strings;                *)
(*  - None for a string option is the empty string (the code only tests    *)
(*    these options for truthiness), None for max_depth is NoneDepth;      *)
(*  - a dict is a function (url_depth) or, where insertion order is        *)
(*    observable, a sequence of records keyed by url (contents).           *)
(***************************************************************************)
EXTENDS Integers, Sequences, FiniteSets, TLC

VARIABLES
    base_url,        \* self.base_url
    options,         \* self.options
    site,            \* the web site: what the network answers for each page and sitemap
    visited_urls,    \* self.visited_urls
    to_visit,        \* self.to_visit
    url_depth,       \* self.url_depth
    contents,        \* self.contents
    pdf_elements,    \* self.pdf_elements
    pc,              \* position of run() / interactive_mode()
    current_url,     \* local current_url of run()
    temp_visited,    \* local temp_visited of interactive_mode()
    disc_to_visit,   \* local to_visit of interactive_mode()
    discovered_urls, \* local discovered_urls of interactive_mode()
    frontier0,       \* to_visit as it was when the drain loop was entered
    net_requests,    \* number of requests.get calls issued so far
    outcome,         \* the return path the last process_page call took
    call,            \* arguments of the last direct call of a method
    ret,             \* return value of the last direct call / of run()
    artifact,        \* the output file run() wrote
    attempted        \* the URLs process_page was called with so far, in call order

vars == <<base_url, options, site, visited_urls, to_visit, url_depth, contents,
          pdf_elements, pc, current_url, temp_visited, disc_to_visit,
          discovered_urls, frontier0, net_requests, outcome, call, ret, artifact,
          attempted>>

crawl_vars == <<visited_urls, to_visit, url_depth, contents, pdf_elements, pc,
                current_url, temp_visited, disc_to_visit, discovered_urls,
                frontier0, net_requests, outcome, attempted>>

----------------------------------------------------------------------------
(* Bounds *)

\* largest max_pages option explored
MaxPages == 4
\* largest max_depth option explored
MaxDepthOpt == 2
\* longest page text explored by the filter specification
MaxTextLen == 2
\* longest comma-separated keyword option explored by the filter specification
MaxOptLen == 3
\* longest interactive selection (number of indices typed)
MaxSelect == 2

----------------------------------------------------------------------------
(* Strings *)

Min(a, b) == IF a <= b THEN a ELSE b

\* str.lower() on one character
LowerChar(c) == IF c = "A" THEN "a" ELSE IF c = "B" THEN "b" ELSE c

\* str.lower()
Lower(s) == [i \in 1..Len(s) |-> LowerChar(s[i])]

RECURSIVE LStrip(_)
LStrip(s) == IF s # << >> /\ Head(s) = " " THEN LStrip(Tail(s)) ELSE s

RECURSIVE RStrip(_)
RStrip(s) == IF s # << >> /\ s[Len(s)] = " " THEN RStrip(SubSeq(s, 1, Len(s) - 1)) ELSE s

\* str.strip()
Strip(s) == RStrip(LStrip(s))

\* the operator `in` on two strings: k in s
Contains(s, k) == \E i \in 0..(Len(s) - Len(k)) : SubSeq(s, i + 1, i + Len(k)) = k

\* str.split(','): the pieces between the commas, empty pieces kept
RECURSIVE SplitFrom(_, _)
SplitFrom(s, piece) ==
    IF s = << >> THEN <<piece>>
    ELSE IF Head(s) = "," THEN <<piece>> \o SplitFrom(Tail(s), << >>)
    ELSE SplitFrom(Tail(s), Append(piece, Head(s)))

Split(s) == SplitFrom(s, << >>)

SeqRange(s) == {s[i] : i \in 1..Len(s)}

\* all sequences over S of length at most n
SeqsUpTo(S, n) == UNION {[1..k -> S] : k \in 0..n}

----------------------------------------------------------------------------
(* URLs *)

Url(h, s, e, f) == [host |-> h, segs |-> s, ext |-> e, frag |-> f]

\* the empty string, also standing for from_url=None (both are falsy)
NoUrl == Url("", << >>, "", "")

\* max_depth is None
NoneDepth == -1

\* url.split("#")[0]
StripFragment(url) == [url EXCEPT !.frag = ""]

\* urlparse(base_url).netloc
domain == base_url.host

\* urlparse(base_url).path.rsplit('/', 1)[0] + '/' : the directory segments d1..dk
\* of the string "/d1/../dk/" (k = 0 is "/")
base_path == IF base_url.segs = << >> THEN << >>
             ELSE SubSeq(base_url.segs, 1, Len(base_url.segs) - 1)

\* the prefix test against the directory without its final '/'
StartsWithBasePath_NoSlash(url) ==
    /\ Len(url.segs) >= Len(base_path)
    /\ SubSeq(url.segs, 1, Len(base_path)) = base_path

\* path.startswith(self.base_path): the path "/s1/../sn" + ext starts with
\* "/d1/../dk/" exactly when it has more than k segments and the first k agree
StartsWithBasePath(url) ==
    /\ Len(url.segs) > Len(base_path)
    /\ SubSeq(url.segs, 1, Len(base_path)) = base_path

\* the suffixes of the path.endswith(...) test
NonHtmlExtensions == {".pdf", ".png", ".jpg", ".jpeg", ".gif", ".svg", ".zip",
                      ".exe", ".json", ".xml", ".js", ".css"}

EndsWithNonHtml(url) == url.ext \in NonHtmlExtensions

\* parsed.netloc and parsed.netloc != self.domain
ForeignHost(url) == url.host # "" /\ url.host # domain

\* dict[k] = v
DictSet(d, k, v) == [x \in (DOMAIN d) \cup {k} |-> IF x = k THEN v ELSE d[x]]

\* dict.get(k, default)
DictGet(d, k, default) == IF k \in DOMAIN d THEN d[k] ELSE default

\* the function with the depth recorded before the depth limit is tested
is_valid_url_RecordsFirst(url, from_url, depth) ==
    IF ForeignHost(url) THEN [ok |-> FALSE, url_depth |-> depth]
    ELSE IF ~StartsWithBasePath(url) THEN [ok |-> FALSE, url_depth |-> depth]
    ELSE IF EndsWithNonHtml(url) THEN [ok |-> FALSE, url_depth |-> depth]
    ELSE IF options.max_depth # NoneDepth /\ from_url # NoUrl
         THEN LET parent_depth == DictGet(depth, from_url, 0)
              IN  [ok |-> parent_depth < options.max_depth,
                   url_depth |-> DictSet(depth, StripFragment(url), parent_depth + 1)]
    ELSE [ok |-> TRUE, url_depth |-> depth]

\* is_valid_url(url, from_url) on the depth map `depth`: the returned boolean
\* and the depth map it leaves behind
is_valid_url(url, from_url, depth) ==
    IF ForeignHost(url) THEN [ok |-> FALSE, url_depth |-> depth]
    ELSE IF ~StartsWithBasePath(url) THEN [ok |-> FALSE, url_depth |-> depth]
    ELSE IF EndsWithNonHtml(url) THEN [ok |-> FALSE, url_depth |-> depth]
    ELSE IF options.max_depth # NoneDepth /\ from_url # NoUrl
         THEN LET parent_depth == DictGet(depth, from_url, 0)
              IN  IF parent_depth >= options.max_depth
                  THEN [ok |-> FALSE, url_depth |-> depth]
                  ELSE [ok |-> TRUE,
                        url_depth |-> DictSet(depth, StripFragment(url), parent_depth + 1)]
    ELSE [ok |-> TRUE, url_depth |-> depth]

\* extract_links over the hrefs (already joined to absolute URLs) of the
\* anchors of a page, in document order: the list returned and the depth map
\* the is_valid_url calls leave behind
RECURSIVE extract_links_from(_, _, _, _)
extract_links_from(hrefs, current, depth, links) ==
    IF hrefs = << >> THEN [links |-> links, url_depth |-> depth]
    ELSE LET absolute_url == Head(hrefs)
             v == is_valid_url(absolute_url, current, depth)
         IN  extract_links_from(Tail(hrefs), current, v.url_depth,
                 IF v.ok /\ absolute_url \notin visited_urls
                 THEN Append(links, absolute_url) ELSE links)

extract_links(hrefs, current, depth) == extract_links_from(hrefs, current, depth, << >>)

----------------------------------------------------------------------------
(* Content filters *)

\* [k.lower().strip() for k in option.split(',')]
Keywords(option) ==
    LET parts == Split(option) IN [i \in 1..Len(parts) |-> Strip(Lower(parts[i]))]

\* [c.strip() for c in option.split(',')]
Categories(option) ==
    LET parts == Split(option) IN [i \in 1..Len(parts) |-> Strip(parts[i])]

\* the filter with the exclude list looked at only when no include keyword matched
check_content_filters_IncludeWins(text) ==
    IF options.contains = << >> /\ options.not_contains = << >> THEN TRUE
    ELSE LET page_text == Lower(text) IN
         IF /\ options.contains # << >>
            /\ \E kw \in SeqRange(Keywords(options.contains)) : Contains(page_text, kw)
         THEN TRUE
         ELSE IF options.contains # << >> THEN FALSE
         ELSE ~ \E kw \in SeqRange(Keywords(options.not_contains)) : Contains(page_text, kw)

\* check_content_filters(soup, url), text being soup.get_text()
check_content_filters(text) ==
    IF options.contains = << >> /\ options.not_contains = << >> THEN TRUE
    ELSE LET page_text == Lower(text) IN
         IF /\ options.contains # << >>
            /\ ~ \E kw \in SeqRange(Keywords(options.contains)) : Contains(page_text, kw)
         THEN FALSE
         ELSE IF /\ options.not_contains # << >>
                 /\ \E kw \in SeqRange(Keywords(options.not_contains)) : Contains(page_text, kw)
         THEN FALSE
         ELSE TRUE

\* what soup.select_one finds for one selector: no element, or an element and its text
NoElem == [found |-> FALSE, text |-> << >>]
Elem(t) == [found |-> TRUE, text |-> t]

\* get_category(soup): cats[i] is what select_one finds for the i-th selector of
\* category_selectors ('.breadcrumbs', '.nav-item.active', '.sidebar .active',
\* 'header .category'); the result None is the empty string
RECURSIVE get_category(_)
get_category(cats) ==
    IF cats = << >> THEN << >>
    ELSE IF Head(cats).found THEN Strip(Head(cats).text)
    ELSE get_category(Tail(cats))

\* the category filter of process_page: TRUE when the page is rejected
category_rejects(cats) ==
    /\ options.categories # << >>
    /\ LET page_category == get_category(cats) IN
       /\ page_category # << >>
       /\ ~ \E cat \in SeqRange(Categories(options.categories)) :
              Contains(Lower(page_category), Lower(cat))

----------------------------------------------------------------------------
(* The network *)

\* download_page(url): the page the site serves for the URL (the fragment is
\* not part of the request); a URL without a host cannot be requested
PageOf(url) == site.pages[StripFragment(url)]

Served(url) == url.host # "" /\ StripFragment(url) \in DOMAIN site.pages

\* download_page(url) returns the HTML (TRUE) or None (FALSE)
download_page(url) == Served(url) /\ PageOf(url).status = "ok"

\* the hrefs of the anchors of a parsed page, in document order
Hrefs(links) == [i \in 1..Len(links) |-> links[i].href]

\* the anchors left after the chrome regions were decomposed
RECURSIVE OutsideChrome(_)
OutsideChrome(links) ==
    IF links = << >> THEN << >>
    ELSE IF Head(links).chrome THEN OutsideChrome(Tail(links))
    ELSE <<Head(links)>> \o OutsideChrome(Tail(links))

\* parse_sitemap(sitemap_url): the candidate that answers 200, if any
sitemap_candidates == <<"base/sitemap.xml", "domain/sitemap.xml", "domain/sitemap_index.xml">>

SitemapAnswers(name) == name \in DOMAIN site.sitemaps /\ site.sitemaps[name].kind # "error"

RECURSIVE FirstCandidate(_)
FirstCandidate(cands) ==
    IF cands = << >> THEN [url |-> "", requests |-> 0]
    ELSE IF SitemapAnswers(Head(cands)) THEN [url |-> Head(cands), requests |-> 1]
    ELSE LET r == FirstCandidate(Tail(cands))
         IN  [url |-> r.url, requests |-> r.requests + 1]

\* the <loc> entries of a urlset that pass is_valid_url(loc.text)
RECURSIVE ValidLocs(_)
ValidLocs(locs) ==
    IF locs = << >> THEN << >>
    ELSE IF is_valid_url(Head(locs), NoUrl, url_depth).ok
         THEN <<Head(locs)>> \o ValidLocs(Tail(locs))
         ELSE ValidLocs(Tail(locs))

\* parse_sitemap with a sitemap_url given: the urls returned and the number of
\* requests issued
RECURSIVE parse_sitemap_at(_)
RECURSIVE parse_sitemap_children(_)
parse_sitemap_at(name) ==
    IF ~SitemapAnswers(name) THEN [urls |-> << >>, requests |-> 1]
    ELSE LET doc == site.sitemaps[name] IN
         IF doc.kind = "index"
         THEN LET r == parse_sitemap_children(doc.children)
              IN  [urls |-> r.urls, requests |-> r.requests + 1]
         ELSE [urls |-> ValidLocs(doc.locs), requests |-> 1]

parse_sitemap_children(names) ==
    IF names = << >> THEN [urls |-> << >>, requests |-> 0]
    ELSE LET h == parse_sitemap_at(Head(names))
             t == parse_sitemap_children(Tail(names))
         IN  [urls |-> h.urls \o t.urls, requests |-> h.requests + t.requests]

\* parse_sitemap(sitemap_url)
parse_sitemap(sitemap_url) ==
    IF sitemap_url = ""
    THEN LET c == FirstCandidate(sitemap_candidates) IN
         IF c.url = "" THEN [urls |-> << >>, requests |-> c.requests]
         ELSE LET r == parse_sitemap_at(c.url)
              IN  [urls |-> r.urls, requests |-> c.requests + r.requests]
    ELSE parse_sitemap_at(sitemap_url)

----------------------------------------------------------------------------
(* The sites and options explored *)

Seed     == Url("docs", <<"guide", "">>, "", "")
PageA    == Url("docs", <<"guide", "a">>, "", "")
PageAx   == Url("docs", <<"guide", "a">>, "", "x")
PageB    == Url("docs", <<"guide", "b">>, "", "")
PageC    == Url("docs", <<"guide", "c">>, "", "")
External == Url("ext", <<"guide", "a">>, "", "")
Outside  == Url("docs", <<"other", "a">>, "", "")
Image    == Url("docs", <<"guide", "logo">>, ".png", "")
Relative == Url("", <<"guide", "a">>, "", "")

PageKeys == {Seed, PageA, PageB, PageC}

Link(u) == [href |-> u, chrome |-> FALSE]
NavLink(u) == [href |-> u, chrome |-> TRUE]

\* the anchors of each page, in document order
Topologies == {
    \* the seed links two pages and an external site; one page has a child
    [p \in PageKeys |-> IF p = Seed THEN <<Link(PageA), Link(PageB), Link(External)>>
                        ELSE IF p = PageA THEN <<Link(PageC)>> ELSE << >>],
    \* a link that carries a fragment
    [p \in PageKeys |-> IF p = Seed THEN <<Link(PageAx)>>
                        ELSE IF p = PageA THEN <<Link(PageB), Link(Image)>> ELSE << >>],
    \* a page linked from the seed and from a sibling
    [p \in PageKeys |-> IF p = Seed THEN <<Link(PageA), Link(PageB)>>
                        ELSE IF p = PageA THEN <<Link(PageB)>>
                        ELSE IF p = PageB THEN <<Link(PageC)>> ELSE << >>],
    \* links back, repeated links, a link out of the path prefix
    [p \in PageKeys |-> IF p = Seed THEN <<Link(PageA), Link(PageA), Link(PageAx),
                                           Link(Seed), Link(Outside)>>
                        ELSE IF p = PageA THEN <<Link(Seed), Link(PageA)>> ELSE << >>],
    \* a link that only the navigation bar holds
    [p \in PageKeys |-> IF p = Seed THEN <<NavLink(PageA), Link(PageB)>>
                        ELSE IF p = PageB THEN <<NavLink(PageC)>> ELSE << >>],
    \* a page that links itself before it links its child
    [p \in PageKeys |-> IF p = Seed THEN <<Link(PageA)>>
                        ELSE IF p = PageA THEN <<Link(PageA), Link(PageB)>> ELSE << >>] }

\* what a page can be. raises tells where reportlab's Paragraph raises on the
\* page's text (it parses its argument as markup and rejects an unknown tag):
\* "title" on the title paragraph, "body" on a heading or paragraph of the main
\* content, "none" nowhere
GoodPage == [status |-> "ok", text |-> <<"a">>, title |-> <<"T">>, has_main |-> TRUE,
             cats |-> <<Elem(<<"a">>), NoElem, NoElem, NoElem>>, raises |-> "none"]

Profiles == {
    [GoodPage EXCEPT !.status = "error"],
    [GoodPage EXCEPT !.status = "nonhtml"],
    [GoodPage EXCEPT !.has_main = FALSE],
    [GoodPage EXCEPT !.text = <<"c">>],
    [GoodPage EXCEPT !.text = <<"a", "b">>],
    [GoodPage EXCEPT !.cats = <<NoElem, Elem(<<"c">>), NoElem, NoElem>>],
    [GoodPage EXCEPT !.cats = <<Elem(<<" ">>), Elem(<<"c">>), NoElem, NoElem>>],
    [GoodPage EXCEPT !.raises = "title"],
    [GoodPage EXCEPT !.raises = "body"] }

WithLinks(profile, links) ==
    [status |-> profile.status, text |-> profile.text, title |-> profile.title,
     has_main |-> profile.has_main, cats |-> profile.cats, raises |-> profile.raises,
     links |-> links]

\* the pages of a site: every page good but at most one
PageMaps == { [p \in PageKeys |-> WithLinks(IF p = bad THEN prof ELSE GoodPage, topo[p])] :
                 topo \in Topologies, bad \in PageKeys, prof \in Profiles \cup {GoodPage} }

UrlSet(locs) == [kind |-> "urlset", children |-> << >>, locs |-> locs]
SitemapIndex(names) == [kind |-> "index", children |-> names, locs |-> << >>]

\* the sitemap documents of a site, by the URL that serves them
SitemapMaps == {
    \* no sitemap anywhere
    [n \in {"explicit"} |-> [kind |-> "error", children |-> << >>, locs |-> << >>]],
    \* one urlset that lists a page twice, and URLs out of scope
    [n \in {"explicit", "domain/sitemap.xml"} |->
        UrlSet(<<PageA, PageB, External, PageA, Image>>)],
    \* an index of two urlsets that share a page, and of one that is missing
    [n \in {"explicit", "base/sitemap.xml", "leaf1", "leaf2"} |->
        IF n = "leaf1" THEN UrlSet(<<PageB, PageAx>>)
        ELSE IF n = "leaf2" THEN UrlSet(<<Relative, PageB, Outside>>)
        ELSE SitemapIndex(<<"leaf1", "missing", "leaf2">>)] }

NoSitemaps == [n \in {"explicit"} |-> [kind |-> "error", children |-> << >>, locs |-> << >>]]

FilterOptions == {
    [contains |-> << >>, not_contains |-> << >>, categories |-> << >>],
    [contains |-> <<"A">>, not_contains |-> <<" ", "b">>, categories |-> <<" ", "A">>] }

Options(max_pages, max_depth, format, use_sitemap, sitemap_url, interactive, f) ==
    [max_pages |-> max_pages, max_depth |-> max_depth, format |-> format,
     use_sitemap |-> use_sitemap, sitemap_url |-> sitemap_url,
     interactive |-> interactive, contains |-> f.contains,
     not_contains |-> f.not_contains, categories |-> f.categories]

NoCall == [fn |-> "none"]

\* no output file written
NoArtifact == [written |-> FALSE, format |-> "none", pages |-> << >>]

\* __init__: the state of a converter just constructed
Constructed ==
    /\ visited_urls = {}
    /\ to_visit = <<base_url>>
    /\ url_depth = [u \in {base_url} |-> 0]
    /\ contents = << >>
    /\ pdf_elements = << >>
    /\ pc = "start"
    /\ current_url = NoUrl
    /\ temp_visited = {}
    /\ disc_to_visit = << >>
    /\ discovered_urls = << >>
    /\ frontier0 = << >>
    /\ net_requests = 0
    /\ outcome = "none"
    /\ call = NoCall
    /\ ret = FALSE
    /\ artifact = NoArtifact
    /\ attempted = << >>

\* the pages of the first topology only
PageMapsOne == { pages \in PageMaps :
                    pages[Seed].links = <<Link(PageA), Link(PageB), Link(External)>> }

\* of these, the sites whose pages other than the seed are good
PageMapsFew == { pages \in PageMapsOne : \A p \in PageKeys \ {Seed} :
                    pages[p] = WithLinks(GoodPage, pages[p].links) }

\* a converter constructed for the seed, over the sites and options explored.
\* No link is extracted from a page in sitemap mode, so one topology is enough there.
InitOptions(formats, link_sites, sitemap_sites) ==
    \E use_sitemap \in BOOLEAN :
    \E pages \in (IF use_sitemap THEN sitemap_sites ELSE link_sites),
       sitemaps \in (IF use_sitemap THEN SitemapMaps ELSE {NoSitemaps}),
       sitemap_url \in (IF use_sitemap THEN {"", "explicit"} ELSE {""}),
       max_pages \in 1..MaxPages,
       max_depth \in {NoneDepth} \cup (IF use_sitemap THEN {1} ELSE 1..MaxDepthOpt),
       format \in formats, interactive \in BOOLEAN, f \in FilterOptions :
       /\ site = [pages |-> pages, sitemaps |-> sitemaps]
       /\ options = Options(max_pages, max_depth, format, use_sitemap,
                            sitemap_url, interactive, f)

\* every site and crawl option, the output format being json
Init ==
    /\ base_url = Seed
    /\ InitOptions({"json"}, PageMaps, PageMapsOne)
    /\ Constructed

\* the format selectors explored: the supported ones, one in upper case and an
\* unsupported one
Formats == {"pdf", "html", "json", "md", "markdown", "docx", "PDF", "pptx"}

\* every output format, over fewer sites
InitFormat ==
    /\ base_url = Seed
    /\ InitOptions(Formats, PageMapsFew, PageMapsFew)
    /\ Constructed

----------------------------------------------------------------------------
(* process_page *)

\* the assignment with a new key put in front of the others
ContentsPut_Front(c, rec) ==
    IF \E i \in 1..Len(c) : c[i].url = rec.url
    THEN [i \in 1..Len(c) |-> IF c[i].url = rec.url THEN rec ELSE c[i]]
    ELSE <<rec>> \o c

\* self.contents[url] = record: a new key goes to the end, an existing key
\* keeps its place
ContentsPut(c, rec) ==
    IF \E i \in 1..Len(c) : c[i].url = rec.url
    THEN [i \in 1..Len(c) |-> IF c[i].url = rec.url THEN rec ELSE c[i]]
    ELSE Append(c, rec)

ContentsKeys(c) == {c[i].url : i \in 1..Len(c)}

\* the same loop putting the new links in front of the queue
AppendNew_Front(queue, links, seen) ==
    LET new == SelectSeq(links, LAMBDA l : l \notin seen /\ l \notin SeqRange(queue))
    IN  new \o queue

\* for link in new_links: if link not in visited_urls and link not in to_visit: append
RECURSIVE AppendNew(_, _, _)
AppendNew(queue, links, seen) ==
    IF links = << >> THEN queue
    ELSE IF Head(links) \notin seen /\ Head(links) \notin SeqRange(queue)
         THEN AppendNew(Append(queue, Head(links)), Tail(links), seen)
         ELSE AppendNew(queue, Tail(links), seen)

\* the flowables process_page returns for an accepted page
Elements(url) == <<[kind |-> "Title", url |-> url], [kind |-> "Source", url |-> url],
                   [kind |-> "PageBreak", url |-> url]>>

\* the return path of process_page(url)
PageOutcome(url) ==
    IF ~Served(url) \/ PageOf(url).status = "error" THEN "fetch_failed"
    ELSE IF PageOf(url).status = "nonhtml" THEN "non_html"
    ELSE IF ~check_content_filters(PageOf(url).text) THEN "kw_rejected"
    ELSE IF category_rejects(PageOf(url).cats) THEN "cat_rejected"
    ELSE IF ~PageOf(url).has_main THEN "no_main"
    ELSE IF PageOf(url).raises = "title" THEN "raised_at_title"
    ELSE IF PageOf(url).raises = "body" THEN "raised_at_body"
    ELSE "ok"

\* the record stored for an accepted page: html is str(main_content), the
\* markup of the main element around its text
PageRecord(url) ==
    [title |-> PageOf(url).title,
     html |-> [tag |-> "main", text |-> PageOf(url).text],
     text |-> PageOf(url).text,
     url |-> url]

\* process_page reaches the line that stores the record: no early return was
\* taken (an exception of the element building comes later)
RecordStored(url) == PageOutcome(url) \in {"ok", "raised_at_title", "raised_at_body"}

\* the same step with the links taken from the page right after the download
LinksExtracted_BeforeFilters(url) == download_page(url) /\ ~options.use_sitemap

\* the same step with the links extracted in sitemap mode too
LinksExtracted_InSitemapMode(url) == PageOutcome(url) \in {"ok", "raised_at_body"}

\* process_page reaches the link extraction: no early return was taken, the
\* title paragraph was built and the converter is not in sitemap mode
LinksExtracted(url) == PageOutcome(url) \in {"ok", "raised_at_body"} /\ ~options.use_sitemap

\* process_page(current_url) and the rest of the loop body of run(): the page is
\* downloaded, filtered, recorded, its links are enqueued, and the elements
\* returned are added to pdf_elements
ProcessPage ==
    /\ pc = "process"
    /\ net_requests' = net_requests + 1
    /\ outcome' = PageOutcome(current_url)
    /\ contents' = IF RecordStored(current_url)
                   THEN ContentsPut(contents, PageRecord(current_url))
                   ELSE contents
    /\ LET r == IF LinksExtracted(current_url)
                THEN extract_links(Hrefs(OutsideChrome(PageOf(current_url).links)),
                                   current_url, url_depth)
                ELSE [links |-> << >>, url_depth |-> url_depth]
       IN  /\ to_visit' = AppendNew(to_visit, r.links, visited_urls)
           /\ url_depth' = r.url_depth
    /\ pdf_elements' = IF PageOutcome(current_url) = "ok"
                       THEN pdf_elements \o Elements(current_url)
                       ELSE pdf_elements
    /\ attempted' = Append(attempted, current_url)
    /\ pc' = "loop"
    /\ UNCHANGED <<base_url, options, site, visited_urls, current_url, temp_visited,
                   disc_to_visit, discovered_urls, frontier0, call, ret, artifact>>

----------------------------------------------------------------------------
(* interactive_mode *)

\* the iteration with the links taken only from a page that process_page accepts
DiscoverPage_Filtered ==
    /\ pc = "discover"
    /\ disc_to_visit # << >>
    /\ Cardinality(temp_visited) < options.max_pages
    /\ LET url == Head(disc_to_visit) IN
       IF url \in temp_visited
       THEN /\ disc_to_visit' = Tail(disc_to_visit)
            /\ UNCHANGED <<temp_visited, discovered_urls, net_requests, url_depth>>
       ELSE /\ temp_visited' = temp_visited \cup {url}
            /\ discovered_urls' = Append(discovered_urls, url)
            /\ net_requests' = net_requests + 1
            /\ IF PageOutcome(url) = "ok"
               THEN LET r == extract_links(Hrefs(PageOf(url).links), url, url_depth)
                    IN  /\ disc_to_visit' = AppendNew(Tail(disc_to_visit), r.links,
                                                      temp_visited \cup {url})
                        /\ url_depth' = r.url_depth
               ELSE /\ disc_to_visit' = Tail(disc_to_visit)
                    /\ UNCHANGED url_depth
    /\ UNCHANGED <<base_url, options, site, visited_urls, to_visit, contents,
                   pdf_elements, pc, current_url, frontier0, outcome, call, ret, artifact,
                   attempted>>

\* one iteration of the discovery loop: the URL popped is skipped when it is in
\* temp_visited; otherwise the page is downloaded and its links, those of the
\* chrome included, are queued
DiscoverPage ==
    /\ pc = "discover"
    /\ disc_to_visit # << >>
    /\ Cardinality(temp_visited) < options.max_pages
    /\ LET url == Head(disc_to_visit) IN
       IF url \in temp_visited
       THEN /\ disc_to_visit' = Tail(disc_to_visit)
            /\ UNCHANGED <<temp_visited, discovered_urls, net_requests, url_depth>>
       ELSE /\ temp_visited' = temp_visited \cup {url}
            /\ discovered_urls' = Append(discovered_urls, url)
            /\ net_requests' = net_requests + 1
            /\ IF download_page(url)
               THEN LET r == extract_links(Hrefs(PageOf(url).links), url, url_depth)
                    IN  /\ disc_to_visit' = AppendNew(Tail(disc_to_visit), r.links,
                                                      temp_visited \cup {url})
                        /\ url_depth' = r.url_depth
               ELSE /\ disc_to_visit' = Tail(disc_to_visit)
                    /\ UNCHANGED url_depth
    /\ UNCHANGED <<base_url, options, site, visited_urls, to_visit, contents,
                   pdf_elements, pc, current_url, frontier0, outcome, call, ret, artifact,
                   attempted>>

\* the discovery loop ends: urls = discovered_urls is shown for selection
DiscoverEnd ==
    /\ pc = "discover"
    /\ ~(disc_to_visit # << >> /\ Cardinality(temp_visited) < options.max_pages)
    /\ pc' = "select"
    /\ UNCHANGED <<base_url, options, site, visited_urls, to_visit, url_depth, contents,
                   pdf_elements, current_url, temp_visited, disc_to_visit,
                   discovered_urls, frontier0, net_requests, outcome, call, ret, artifact,
                   attempted>>

\* [urls[i] for i in indices if 0 <= i < len(urls)], indices being the numbers typed less one
RECURSIVE SelectByNumbers(_, _)
SelectByNumbers(urls, numbers) ==
    IF numbers = << >> THEN << >>
    ELSE LET i == Head(numbers) - 1 IN
         IF 0 <= i /\ i < Len(urls)
         THEN <<urls[i + 1]>> \o SelectByNumbers(urls, Tail(numbers))
         ELSE SelectByNumbers(urls, Tail(numbers))

\* the user answers 'all': run() takes the list as its frontier
SelectAll ==
    /\ pc = "select"
    /\ to_visit' = discovered_urls
    /\ frontier0' = discovered_urls
    /\ pc' = "loop"
    /\ UNCHANGED <<base_url, options, site, visited_urls, url_depth, contents,
                   pdf_elements, current_url, temp_visited, disc_to_visit,
                   discovered_urls, net_requests, outcome, call, ret, artifact,
                   attempted>>

\* the user answers numbers: run() takes the URLs so numbered as its frontier
SelectNumbers ==
    /\ pc = "select"
    /\ \E numbers \in SeqsUpTo(0..(Len(discovered_urls) + 1), MaxSelect) :
          /\ numbers # << >>
          /\ to_visit' = SelectByNumbers(discovered_urls, numbers)
          /\ frontier0' = SelectByNumbers(discovered_urls, numbers)
    /\ pc' = "loop"
    /\ UNCHANGED <<base_url, options, site, visited_urls, url_depth, contents,
                   pdf_elements, current_url, temp_visited, disc_to_visit,
                   discovered_urls, net_requests, outcome, call, ret, artifact,
                   attempted>>

\* the user answers 'q', or something that is not a list of numbers: sys.exit
SelectExit ==
    /\ pc = "select"
    /\ pc' = "exited"
    /\ UNCHANGED <<base_url, options, site, visited_urls, to_visit, url_depth, contents,
                   pdf_elements, current_url, temp_visited, disc_to_visit,
                   discovered_urls, frontier0, net_requests, outcome, call, ret, artifact,
                   attempted>>

----------------------------------------------------------------------------
(* run *)

\* run() up to the drain loop: the sitemap seeds the frontier when use_sitemap
\* is set, and interactive_mode() is entered when interactive is set (with
\* use_sitemap it parses the sitemap again and goes straight to the selection)
RunStart ==
    /\ pc = "start"
    /\ LET sm == parse_sitemap(options.sitemap_url)
           seeded == IF options.use_sitemap THEN sm.urls ELSE to_visit
           asked == IF options.use_sitemap THEN sm.requests ELSE 0
       IN  /\ to_visit' = seeded
           /\ IF options.interactive
              THEN IF options.use_sitemap
                   THEN /\ discovered_urls' = sm.urls
                        /\ net_requests' = net_requests + asked + sm.requests
                        /\ pc' = "select"
                        /\ UNCHANGED <<temp_visited, disc_to_visit, frontier0>>
                   ELSE /\ temp_visited' = {}
                        /\ disc_to_visit' = <<base_url>>
                        /\ discovered_urls' = << >>
                        /\ net_requests' = net_requests + asked
                        /\ pc' = "discover"
                        /\ UNCHANGED frontier0
              ELSE /\ frontier0' = seeded
                   /\ net_requests' = net_requests + asked
                   /\ pc' = "loop"
                   /\ UNCHANGED <<temp_visited, disc_to_visit, discovered_urls>>
    /\ UNCHANGED <<base_url, options, site, visited_urls, url_depth, contents,
                   pdf_elements, current_url, outcome, call, ret, artifact,
                   attempted>>

\* while self.to_visit and len(self.visited_urls) < self.options['max_pages']
LoopCondition == to_visit # << >> /\ Cardinality(visited_urls) < options.max_pages

\* the iteration that leaves a URL already visited at the head of the frontier
LoopSkip_NoPop ==
    /\ pc = "loop"
    /\ to_visit # << >> /\ Cardinality(visited_urls) < options.max_pages
    /\ Head(to_visit) \in visited_urls
    /\ UNCHANGED vars

\* an iteration that pops a URL already visited: continue
LoopSkip ==
    /\ pc = "loop"
    /\ LoopCondition
    /\ Head(to_visit) \in visited_urls
    /\ to_visit' = Tail(to_visit)
    /\ UNCHANGED <<base_url, options, site, visited_urls, url_depth, contents,
                   pdf_elements, pc, current_url, temp_visited, disc_to_visit,
                   discovered_urls, frontier0, net_requests, outcome, call, ret, artifact,
                   attempted>>

\* the iteration without the line that marks the URL visited
LoopDequeue_NotMarked ==
    /\ pc = "loop"
    /\ to_visit # << >> /\ Cardinality(visited_urls) < options.max_pages
    /\ Head(to_visit) \notin visited_urls
    /\ current_url' = Head(to_visit)
    /\ to_visit' = Tail(to_visit)
    /\ pc' = "process"
    /\ UNCHANGED <<base_url, options, site, visited_urls, url_depth, contents,
                   pdf_elements, temp_visited, disc_to_visit, discovered_urls,
                   frontier0, net_requests, outcome, call, ret, artifact,
                   attempted>>

\* the iteration without the test that skips a URL already visited
LoopDequeue_Revisit ==
    /\ pc = "loop"
    /\ to_visit # << >> /\ Cardinality(visited_urls) < options.max_pages
    /\ current_url' = Head(to_visit)
    /\ to_visit' = Tail(to_visit)
    /\ visited_urls' = visited_urls \cup {Head(to_visit)}
    /\ pc' = "process"
    /\ UNCHANGED <<base_url, options, site, url_depth, contents, pdf_elements,
                   temp_visited, disc_to_visit, discovered_urls, frontier0,
                   net_requests, outcome, call, ret, artifact, attempted>>

\* an iteration that pops a new URL: it is marked visited and process_page is called
LoopDequeue ==
    /\ pc = "loop"
    /\ LoopCondition
    /\ Head(to_visit) \notin visited_urls
    /\ current_url' = Head(to_visit)
    /\ to_visit' = Tail(to_visit)
    /\ visited_urls' = visited_urls \cup {Head(to_visit)}
    /\ pc' = "process"
    /\ UNCHANGED <<base_url, options, site, url_depth, contents, pdf_elements,
                   temp_visited, disc_to_visit, discovered_urls, frontier0,
                   net_requests, outcome, call, ret, artifact,
                   attempted>>

\* the loop ends
LoopExit ==
    /\ pc = "loop"
    /\ ~LoopCondition
    /\ pc' = "render"
    /\ UNCHANGED <<base_url, options, site, visited_urls, to_visit, url_depth, contents,
                   pdf_elements, current_url, temp_visited, disc_to_visit,
                   discovered_urls, frontier0, net_requests, outcome, call, ret, artifact,
                   attempted>>

\* create_json: output['pages'], one {url, title, text} for each item of
\* self.contents in the order of the dict
create_json(c) ==
    [i \in 1..Len(c) |-> [url |-> c[i].url, title |-> c[i].title, text |-> c[i].text]]

\* options['format'].lower()
LowerFormat(f) == IF f = "PDF" THEN "pdf" ELSE f

\* the chain with a create_pdf that builds the document from no elements too
Render_PdfFromNothing ==
    /\ pc = "render"
    /\ pc' = "done"
    /\ LET format == LowerFormat(options.format) IN
       IF format = "pdf"
       THEN /\ ret' = TRUE
            /\ artifact' = [written |-> TRUE, format |-> "pdf", pages |-> pdf_elements]
       ELSE IF format = "json"
       THEN /\ ret' = TRUE
            /\ artifact' = [written |-> TRUE, format |-> format,
                            pages |-> create_json(contents)]
       ELSE IF format \in {"html", "md", "markdown"}
       THEN /\ ret' = TRUE
            /\ artifact' = [written |-> TRUE, format |-> format, pages |-> contents]
       ELSE IF format = "docx"
       THEN \E installed \in BOOLEAN :
               IF installed
               THEN /\ ret' = TRUE
                    /\ artifact' = [written |-> TRUE, format |-> format, pages |-> contents]
               ELSE ret' = FALSE /\ UNCHANGED artifact
       ELSE ret' = FALSE /\ UNCHANGED artifact
    /\ UNCHANGED <<base_url, options, site, visited_urls, to_visit, url_depth, contents,
                   pdf_elements, current_url, temp_visited, disc_to_visit,
                   discovered_urls, frontier0, net_requests, outcome, call,
                   attempted>>

\* the if/elif chain on options['format'] and the create_* method it calls.
\* create_docx fails when python-docx cannot be imported.
Render ==
    /\ pc = "render"
    /\ pc' = "done"
    /\ LET format == LowerFormat(options.format) IN
       IF format = "pdf"
       THEN IF pdf_elements = << >>
            THEN ret' = FALSE /\ UNCHANGED artifact
            ELSE /\ ret' = TRUE
                 /\ artifact' = [written |-> TRUE, format |-> "pdf", pages |-> pdf_elements]
       ELSE IF format = "json"
       THEN /\ ret' = TRUE
            /\ artifact' = [written |-> TRUE, format |-> format,
                            pages |-> create_json(contents)]
       ELSE IF format \in {"html", "md", "markdown"}
       THEN /\ ret' = TRUE
            /\ artifact' = [written |-> TRUE, format |-> format, pages |-> contents]
       ELSE IF format = "docx"
       THEN \E installed \in BOOLEAN :
               IF installed
               THEN /\ ret' = TRUE
                    /\ artifact' = [written |-> TRUE, format |-> format, pages |-> contents]
               ELSE ret' = FALSE /\ UNCHANGED artifact
       ELSE ret' = FALSE /\ UNCHANGED artifact
    /\ UNCHANGED <<base_url, options, site, visited_urls, to_visit, url_depth, contents,
                   pdf_elements, current_url, temp_visited, disc_to_visit,
                   discovered_urls, frontier0, net_requests, outcome, call,
                   attempted>>

Next ==
    \/ RunStart
    \/ DiscoverPage
    \/ DiscoverEnd
    \/ SelectAll
    \/ SelectNumbers
    \/ SelectExit
    \/ LoopSkip
    \/ LoopDequeue
    \/ ProcessPage
    \/ LoopExit
    \/ Render

Spec == Init /\ [][Next]_vars

SpecFormat == InitFormat /\ [][Next]_vars

\* the steps run() takes by itself: every one but the answer typed at the
\* selection prompt of interactive_mode
ProgramStep ==
    \/ RunStart
    \/ DiscoverPage
    \/ DiscoverEnd
    \/ LoopSkip
    \/ LoopDequeue
    \/ ProcessPage
    \/ LoopExit
    \/ Render

\* every topology, the pages good but for the first page the seed links, which
\* is good or cannot be downloaded
PageMapsLive == { pages \in PageMaps : \A p \in PageKeys :
                    \/ pages[p] = WithLinks(GoodPage, pages[p].links)
                    \/ /\ p = PageA
                       /\ pages[p] = WithLinks([GoodPage EXCEPT !.status = "error"],
                                               pages[p].links) }

\* these sites crawled from their links, and one of them crawled from each
\* sitemap and crawled with the interactive selection; no content filter
InitLive ==
    /\ base_url = Seed
    /\ \E use_sitemap \in BOOLEAN :
       \E pages \in (IF use_sitemap THEN PageMapsFew ELSE PageMapsLive),
          sitemaps \in (IF use_sitemap THEN SitemapMaps ELSE {NoSitemaps}),
          max_pages \in {MaxPages - 1, MaxPages},
          max_depth \in (IF use_sitemap THEN {NoneDepth} ELSE {NoneDepth, 1}),
          interactive \in BOOLEAN :
          /\ pages[Seed] = WithLinks(GoodPage, pages[Seed].links)
          /\ interactive => pages \in PageMapsFew
          /\ site = [pages |-> pages, sitemaps |-> sitemaps]
          /\ options = Options(max_pages, max_depth, "json", use_sitemap, "",
                               interactive,
                               [contains |-> << >>, not_contains |-> << >>,
                                categories |-> << >>])
    /\ Constructed

\* the variables of which every step of the program changes at least one
step_vars == <<pc, to_visit, disc_to_visit, temp_visited>>

\* run() is sequential code whose requests carry a timeout and whose sleeps are
\* finite: a step the program can take is taken
SpecLive == InitLive /\ [][Next]_vars /\ WF_step_vars(ProgramStep)

----------------------------------------------------------------------------
(* is_valid_url called directly on a converter *)

\* the seeds explored: "https://docs/guide/", "https://docs/guide/index.html",
\* "https://docs" and "https://docs/guide"
Seeds == {Seed, Url("docs", <<"guide", "index">>, ".html", ""),
          Url("docs", << >>, "", ""), Url("docs", <<"guide">>, "", "")}

\* the URLs explored: every host, path, extension and fragment below (the empty
\* path has no extension)
UrlUniverse ==
    { u \in { Url(h, s, e, f) :
                h \in {"", "docs", "ext"},
                s \in {<< >>, <<"guide">>, <<"guide", "">>, <<"guide", "a">>,
                       <<"other", "a">>, <<"guide", "sub", "a">>},
                e \in {"", ".html", ".png", ".pdf", ".zip", ".PNG"},
                f \in {"", "x"} } :
        u.segs = << >> => u.ext = "" }

\* with a depth limit the depth map is part of the state: fewer URLs are explored
DepthUrls == {Seed, PageA, PageAx, PageB, External, Image}

DefaultOptions(max_depth) ==
    Options(MaxPages, max_depth, "json", FALSE, "", FALSE,
            [contains |-> << >>, not_contains |-> << >>, categories |-> << >>])

OnePageSite == [pages |-> [p \in PageKeys |-> WithLinks(GoodPage, << >>)],
                sitemaps |-> NoSitemaps]

InitUrl ==
    /\ base_url \in Seeds
    /\ \E max_depth \in {NoneDepth} \cup 1..MaxDepthOpt : options = DefaultOptions(max_depth)
    /\ site = OnePageSite
    /\ Constructed

\* is_valid_url(url, from_url) is called. Without a depth limit a call leaves
\* the converter as it was, so one call on each converter is explored.
CallIsValidUrl ==
    /\ options.max_depth = NoneDepth => call = NoCall
    /\ \E url \in (IF options.max_depth = NoneDepth THEN UrlUniverse ELSE DepthUrls),
          from_url \in {NoUrl, base_url, PageA, PageAx, PageB} :
          LET r == is_valid_url(url, from_url, url_depth) IN
          /\ call' = [fn |-> "is_valid_url", url |-> url, from_url |-> from_url,
                      depth |-> url_depth]
          /\ ret' = r.ok
          /\ url_depth' = r.url_depth
    /\ UNCHANGED <<base_url, options, site, visited_urls, to_visit, contents,
                   pdf_elements, pc, current_url, temp_visited, disc_to_visit,
                   discovered_urls, frontier0, net_requests, outcome, artifact,
                   attempted>>

NextUrl == CallIsValidUrl

SpecUrl == InitUrl /\ [][NextUrl]_vars

----------------------------------------------------------------------------
(* The content filters called directly on a converter *)

\* the characters of the keyword and category options explored
OptionChars == {"a", "A", "b", ",", " "}

\* the characters of the page texts explored
TextChars == {"a", "A", "b"}

OptionStrings == SeqsUpTo(OptionChars, MaxOptLen)

FewOptionStrings == {<< >>, <<"b">>, <<"A">>}

\* what the four selectors of get_category can find
CategoryFinds == [1..4 -> {NoElem, Elem(<<" ">>), Elem(<<"A">>), Elem(<<"b">>)}]

InitFilter ==
    /\ base_url = Seed
    /\ \E c \in OptionStrings, n \in OptionStrings, g \in OptionStrings :
          /\ \/ n \in FewOptionStrings /\ g = << >>
             \/ c \in FewOptionStrings /\ g = << >>
             \/ c = << >> /\ n = << >>
          /\ options = Options(MaxPages, NoneDepth, "json", FALSE, "", FALSE,
                               [contains |-> c, not_contains |-> n, categories |-> g])
    /\ site = OnePageSite
    /\ Constructed

\* check_content_filters(soup, url) is called on a page with the text `text`
\* (one call on each converter, the calls leave it as it was)
CallCheckContentFilters ==
    /\ call = NoCall
    /\ options.categories = << >>
    /\ \E text \in SeqsUpTo(TextChars, MaxTextLen) :
          /\ call' = [fn |-> "check_content_filters", text |-> text]
          /\ ret' = check_content_filters(text)
    /\ UNCHANGED <<base_url, options, site, crawl_vars, artifact>>

\* the category filter of process_page runs on a page
CallCategoryFilter ==
    /\ call = NoCall
    /\ options.contains = << >> /\ options.not_contains = << >>
    /\ \E cats \in CategoryFinds :
          /\ call' = [fn |-> "category_filter", cats |-> cats]
          /\ ret' = ~category_rejects(cats)
    /\ UNCHANGED <<base_url, options, site, crawl_vars, artifact>>

NextFilter == CallCheckContentFilters \/ CallCategoryFilter

SpecFilter == InitFilter /\ [][NextFilter]_vars

----------------------------------------------------------------------------
(* create_markdown called directly on a converter *)

\* longest page title explored
MaxTitleLen == 3

\* soup.title.string is None (a title element that is empty or holds markup)
NoneTitle == <<"None">>

\* the characters of the titles explored
TitleChars == {"A", "b", " ", ":", "."}

\* str.replace(old, new) for a one-character old; new is a string
RECURSIVE Replace(_, _, _)
Replace(s, old, new) ==
    IF s = << >> THEN << >>
    ELSE (IF Head(s) = old THEN new ELSE <<Head(s)>>) \o Replace(Tail(s), old, new)

\* the anchor with the periods kept
anchor_of_KeepPeriod(title) == Replace(Replace(Lower(title), " ", <<"-">>), ":", << >>)

\* title.lower().replace(' ', '-').replace(':', '').replace('.', '')
anchor_of(title) ==
    Replace(Replace(Replace(Lower(title), " ", <<"-">>), ":", << >>), ".", << >>)

\* create_markdown over the records c: the return value, the lines of the table
\* of contents and the section headings written. title.lower() raises on a
\* None title: what was written before stays in the file and False is returned.
create_markdown(c, create_toc) ==
    LET bad == { i \in 1..Len(c) : c[i].title = NoneTitle }
        first_bad == IF bad = {} THEN Len(c) + 1
                     ELSE CHOOSE i \in bad : \A j \in bad : i <= j
        with_toc == create_toc /\ c # << >>
    IN  [ok |-> bad = {},
         toc |-> IF with_toc
                 THEN [i \in 1..(first_bad - 1) |->
                         [title |-> c[i].title, target |-> anchor_of(c[i].title)]]
                 ELSE << >>,
         sections |-> IF with_toc /\ bad # {} THEN << >>
                      ELSE [i \in 1..(first_bad - 1) |->
                              [title |-> c[i].title, id |-> anchor_of(c[i].title),
                               source |-> c[i].url]]]

Titles == SeqsUpTo(TitleChars, MaxTitleLen) \cup {NoneTitle}

FewTitles == {<<"A">>, <<"A", " ", "b">>, <<"b", ".">>, NoneTitle}

TitledRecord(url, title) ==
    [title |-> title, html |-> [tag |-> "main", text |-> <<"a">>], text |-> <<"a">>,
     url |-> url]

\* a converter whose crawl stored no record, one record with any title, or two
\* records with a few titles
InitMarkdown ==
    /\ base_url = Seed
    /\ site = OnePageSite
    /\ \E create_toc \in BOOLEAN :
          options = DefaultOptions(NoneDepth) @@ [create_toc |-> create_toc]
    /\ visited_urls = {}
    /\ to_visit = << >>
    /\ url_depth = [u \in {base_url} |-> 0]
    /\ \/ contents = << >>
       \/ \E t \in Titles : contents = <<TitledRecord(Seed, t)>>
       \/ \E t1, t2 \in FewTitles :
             contents = <<TitledRecord(Seed, t1), TitledRecord(PageA, t2)>>
    /\ pdf_elements = << >>
    /\ pc = "render"
    /\ current_url = NoUrl
    /\ temp_visited = {}
    /\ disc_to_visit = << >>
    /\ discovered_urls = << >>
    /\ frontier0 = << >>
    /\ net_requests = 0
    /\ outcome = "none"
    /\ call = NoCall
    /\ ret = FALSE
    /\ artifact = NoArtifact
    /\ attempted = << >>

\* create_markdown() is called
CallCreateMarkdown ==
    /\ call = NoCall
    /\ LET r == create_markdown(contents, options.create_toc) IN
       /\ call' = [fn |-> "create_markdown"]
       /\ ret' = r.ok
       /\ artifact' = [written |-> TRUE, format |-> "md", toc |-> r.toc,
                       sections |-> r.sections]
    /\ UNCHANGED <<base_url, options, site, crawl_vars>>

NextMarkdown == CallCreateMarkdown

SpecMarkdown == InitMarkdown /\ [][NextMarkdown]_vars

----------------------------------------------------------------------------
(* Notions the claims use *)

NoDuplicates(q) == \A i, j \in 1..Len(q) : i # j => q[i] # q[j]

\* the scope rule in words: same or empty host, path under the seed's
\* directory, no non-document extension
SeedDirectory == [i \in 1..(Len(base_url.segs) - 1) |-> base_url.segs[i]]

UnderSeedDirectory(url) ==
    /\ Len(url.segs) > Len(SeedDirectory)
    /\ \A i \in 1..Len(SeedDirectory) : url.segs[i] = SeedDirectory[i]

NonDocumentExtensions == {".pdf", ".png", ".jpg", ".jpeg", ".gif", ".svg", ".zip",
                          ".exe", ".json", ".xml", ".js", ".css"}

InScope(url) ==
    /\ url.host \in {"", base_url.host}
    /\ UnderSeedDirectory(url)
    /\ url.ext \notin NonDocumentExtensions

\* the in-scope URLs a page links to: every anchor of the page the site serves
\* for the URL, whether or not the crawl accepts the page
LinkedFrom(url) ==
    IF Served(url) THEN {h \in SeqRange(Hrefs(PageOf(url).links)) : InScope(h)} ELSE {}

\* the URLs within n links of a set of URLs
RECURSIVE Within(_, _)
Within(from, n) ==
    IF n = 0 THEN from
    ELSE Within(from, n - 1) \cup UNION {LinkedFrom(u) : u \in Within(from, n - 1)}

\* the in-scope URLs an accepted page links to outside its chrome: the links
\* the drain loop can follow
FollowedFrom(url) ==
    IF PageOutcome(url) \in {"ok", "raised_at_body"} /\ ~options.use_sitemap
    THEN {h \in SeqRange(Hrefs(OutsideChrome(PageOf(url).links))) : InScope(h)}
    ELSE {}

RECURSIVE Following(_, _)
Following(from, n) ==
    IF n = 0 THEN from
    ELSE Following(from, n - 1) \cup UNION {FollowedFrom(u) : u \in Following(from, n - 1)}

\* more links than any shortest chain of the sites explored has
Far == 6

\* the number of links of the shortest chain from the seed to a URL
SeedDistance(url) ==
    IF \E n \in 0..Far : url \in Within({base_url}, n)
    THEN CHOOSE n \in 0..Far : /\ url \in Within({base_url}, n)
                               /\ \A m \in 0..(n - 1) : url \notin Within({base_url}, m)
    ELSE Far

\* the URLs discoverable from the initial frontier: its own URLs and those a
\* chain of followed links reaches from one of them; when a depth limit is
\* configured, those among them the chain puts within max_depth links of the seed
Discoverable ==
    SeqRange(frontier0) \cup
    UNION { Following({f}, IF options.max_depth = NoneDepth THEN Far
                           ELSE options.max_depth - SeedDistance(f)) :
              f \in { g \in SeqRange(frontier0) :
                        options.max_depth = NoneDepth
                        \/ SeedDistance(g) <= options.max_depth } }

Draining == pc \in {"loop", "process"}

Drained == pc \in {"render", "done"}

LinkCrawl == ~options.use_sitemap /\ ~options.interactive

----------------------------------------------------------------------------
(* C1 *)

\* C1: the frontier to_visit never holds a URL twice, in every seeding mode, and
\* a step of process_page appends no URL that is in visited_urls or was in
\* to_visit already.
C1_FrontierHoldsNoDuplicate ==
    [][ /\ NoDuplicates(to_visit')
        /\ pc = "process" =>
              \A i \in 1..Len(to_visit') :
                 i > Len(to_visit) =>
                    /\ to_visit'[i] \notin visited_urls
                    /\ to_visit'[i] \notin SeqRange(to_visit) ]_vars

----------------------------------------------------------------------------
(* C2 *)

\* C2: when the drain loop has ended, |visited_urls| is the smaller of max_pages
\* and the number of URLs discoverable from the initial frontier; and always
\* |contents| <= |visited_urls| <= max_pages.
C2_BudgetExactness ==
    /\ Len(contents) <= Cardinality(visited_urls)
    /\ Cardinality(visited_urls) <= options.max_pages
    /\ Drained =>
          Cardinality(visited_urls) = Min(options.max_pages, Cardinality(Discoverable))

----------------------------------------------------------------------------
(* C3 *)

\* C3: in link-crawl mode with max_depth = D, every URL the drain loop fetches is
\* the seed or an in-scope URL within D links of the seed.
C3_FetchedWithinDepth ==
    (LinkCrawl /\ options.max_depth # NoneDepth) =>
        \A u \in visited_urls :
           u = base_url \/ (InScope(u) /\ u \in Within({base_url}, options.max_depth))

----------------------------------------------------------------------------
(* C4 *)

\* C4: a call of is_valid_url with a parent whose recorded depth is d, under a
\* depth limit: if d < max_depth and the candidate is accepted, the candidate's
\* recorded depth is d + 1; if d >= max_depth the candidate is rejected.
C4_DepthMonotonic ==
    (/\ call.fn = "is_valid_url"
     /\ options.max_depth # NoneDepth
     /\ call.from_url # NoUrl
     /\ call.from_url \in DOMAIN call.depth) =>
        LET d == call.depth[call.from_url] IN
        /\ (d < options.max_depth /\ ret) =>
              (call.url \in DOMAIN url_depth /\ url_depth[call.url] = d + 1)
        /\ d >= options.max_depth => ~ret

----------------------------------------------------------------------------
(* C5 *)

\* C5: with no depth limit is_valid_url returns true exactly when the candidate's
\* host is empty or the seed's, its path is under the seed's directory and its
\* path has no non-document extension.
C5_ScopeDecision ==
    (call.fn = "is_valid_url" /\ options.max_depth = NoneDepth) =>
        (ret = InScope(call.url))

\* a URL without a host is accepted for a seed that names a file
C5_Witness ==
    /\ call.fn = "is_valid_url"
    /\ options.max_depth = NoneDepth
    /\ base_url.ext = ".html"
    /\ call.url.host = ""
    /\ call.url.frag = "x"
    /\ ret = TRUE

----------------------------------------------------------------------------
(* C6 *)

SupportedFormats == {"pdf", "html", "json", "md", "markdown", "docx"}

\* C6: with an unsupported format selector no request is issued: the run
\* fails before any page download, sitemap request or discovery step.
C6_UnsupportedFormatFailsBeforeFetch ==
    LowerFormat(options.format) \notin SupportedFormats => net_requests = 0

----------------------------------------------------------------------------
(* C7 *)

\* the pieces of a comma-separated list: the comma-free stretches that a comma
\* or an end of the string bounds on each side
ListPieces(option) ==
    { SubSeq(option, i, j) :
        <<i, j>> \in { <<i, j>> \in (1..(Len(option) + 1)) \X (0..Len(option)) :
                         /\ i <= j + 1
                         /\ \A k \in i..j : option[k] # ","
                         /\ i = 1 \/ option[i - 1] = ","
                         /\ j = Len(option) \/ option[j + 1] = "," } }

AllSpaces(s) == \A i \in 1..Len(s) : s[i] = " "

\* a string without the spaces around it
Trimmed(s) ==
    CHOOSE t \in { SubSeq(s, i, j) : i \in 1..(Len(s) + 1), j \in 0..Len(s) } :
        /\ t = << >> \/ (t[1] # " " /\ t[Len(t)] # " ")
        /\ \E a, b \in { SubSeq(s, i, j) : i \in 1..(Len(s) + 1), j \in 0..Len(s) } :
              AllSpaces(a) /\ AllSpaces(b) /\ s = a \o t \o b

SameLetter(c, d) == c = d \/ {c, d} = {"a", "A"} \/ {c, d} = {"b", "B"}

\* k occurs in s, the case of the letters set aside
OccursIgnoringCase(s, k) ==
    \E i \in 0..(Len(s) - Len(k)) : \A n \in 1..Len(k) : SameLetter(s[i + n], k[n])

\* some keyword of the list occurs in the text
KeywordHit(option, text) ==
    \E piece \in ListPieces(option) : OccursIgnoringCase(text, Trimmed(piece))

\* C7: check_content_filters accepts a page exactly when (no include list is
\* configured or an include keyword occurs in the page text) and (no exclude
\* list is configured or no exclude keyword occurs in the page text), keywords
\* being compared without their surrounding spaces and without regard to case.
C7_ContentFilter ==
    call.fn = "check_content_filters" =>
        (ret = (/\ options.contains = << >> \/ KeywordHit(options.contains, call.text)
                /\ options.not_contains = << >>
                   \/ ~KeywordHit(options.not_contains, call.text)))

\* a page that matches an include keyword and an exclude keyword is rejected
C7_Witness ==
    /\ call.fn = "check_content_filters"
    /\ options.contains # << >> /\ KeywordHit(options.contains, call.text)
    /\ options.not_contains # << >> /\ KeywordHit(options.not_contains, call.text)
    /\ options.contains # options.not_contains
    /\ ret = FALSE

----------------------------------------------------------------------------
(* C8 *)

\* the locations, in the order of the selectors, whose text is not empty
LabelledLocations(cats) == { i \in 1..Len(cats) : cats[i].found /\ Trimmed(cats[i].text) # << >> }

\* the text of the first of them
CategoryLabel(cats) ==
    Trimmed(cats[CHOOSE i \in LabelledLocations(cats) :
                     \A j \in LabelledLocations(cats) : i <= j].text)

\* C8: with a category list configured, the page is rejected exactly when some
\* location has a non-empty text and no configured category occurs, case set
\* aside, in the text of the first such location.
C8_CategoryFilter ==
    (call.fn = "category_filter" /\ options.categories # << >>) =>
        ((ret = FALSE) <=>
            /\ LabelledLocations(call.cats) # {}
            /\ ~KeywordHit(options.categories, CategoryLabel(call.cats)))

----------------------------------------------------------------------------
(* C9 *)

\* C9: a drain-loop iteration that pops a URL not yet visited adds exactly that
\* URL to visited_urls, and whatever process_page then does with the page, the
\* URL stays counted and the loop goes on.
C9_EveryOutcomeConsumesBudget ==
    [][ /\ (pc = "loop" /\ LoopCondition /\ Head(to_visit) \notin visited_urls) =>
              /\ visited_urls' = visited_urls \cup {Head(to_visit)}
              /\ Cardinality(visited_urls') = Cardinality(visited_urls) + 1
              /\ pc' = "process"
        /\ pc = "process" =>
              /\ visited_urls' = visited_urls
              /\ current_url \in visited_urls
              /\ pc' \in {"process", "loop"} ]_vars

\* after a failed download the loop has popped the next URL
C9_Witness ==
    /\ pc = "process"
    /\ outcome = "fetch_failed"
    /\ Cardinality(visited_urls) = 2

----------------------------------------------------------------------------
(* C10 *)

\* C10: a process_page call that rejects the page by the keyword filter or the
\* category filter leaves contents, pdf_elements and to_visit as they were.
C10_RejectionChangesNothing ==
    [][ (pc = "process" /\ pc' = "loop" /\ outcome' \in {"kw_rejected", "cat_rejected"}) =>
            /\ contents' = contents
            /\ pdf_elements' = pdf_elements
            /\ to_visit' = to_visit ]_vars

\* the seed, which links pages in scope, was rejected by the category filter
\* and nothing was enqueued
C10_Witness ==
    /\ pc = "loop"
    /\ outcome = "cat_rejected"
    /\ current_url = Seed
    /\ FollowedFrom(Seed) = {}
    /\ LinkedFrom(Seed) # {}
    /\ to_visit = << >>

----------------------------------------------------------------------------
(* C11 *)

\* C11: during the drain phase visited_urls only grows, by one URL at a time that
\* was never passed to process_page before, and process_page is never called
\* twice with the same URL, whatever the frontier was seeded with.
C11_VisitedAndProcessedOnce ==
    [][ /\ visited_urls \subseteq visited_urls'
        /\ visited_urls' # visited_urls =>
              \E u \in visited_urls' :
                 /\ u \notin visited_urls
                 /\ u \notin SeqRange(attempted)
                 /\ visited_urls' = visited_urls \cup {u}
        /\ NoDuplicates(attempted') ]_vars

\* a frontier that named a URL twice was drained: each of its URLs was passed
\* to process_page
C11_Witness ==
    /\ pc = "render"
    /\ ~NoDuplicates(frontier0)
    /\ to_visit = << >>
    /\ SeqRange(frontier0) = SeqRange(attempted)
    /\ Len(attempted) < Len(frontier0)

----------------------------------------------------------------------------
(* C12 *)

\* a page is accepted when it is fetched, passes the filters and has a main
\* content
Accepted(url) ==
    PageOutcome(url) \notin {"fetch_failed", "non_html", "kw_rejected", "cat_rejected",
                             "no_main"}

\* the URLs of a sequence that are accepted, in the order of the sequence
RECURSIVE AcceptedOf(_)
AcceptedOf(urls) ==
    IF urls = << >> THEN << >>
    ELSE IF Accepted(Head(urls))
         THEN <<Head(urls)>> \o AcceptedOf(Tail(urls))
         ELSE AcceptedOf(Tail(urls))

\* C12: the pages array of the JSON file holds one entry {url, title, text} for
\* each accepted page, in the order in which the drain loop dequeued and
\* accepted the pages.
C12_JsonPagesInTraversalOrder ==
    (artifact.written /\ artifact.format = "json") =>
        LET accepted == AcceptedOf(attempted) IN
        /\ Len(artifact.pages) = Len(accepted)
        /\ \A i \in 1..Len(accepted) :
              artifact.pages[i] = [url |-> accepted[i],
                                   title |-> site.pages[StripFragment(accepted[i])].title,
                                   text |-> site.pages[StripFragment(accepted[i])].text]

\* three pages were accepted, one page between them was not
C12_Witness ==
    /\ artifact.written /\ artifact.format = "json"
    /\ Len(artifact.pages) = 3
    /\ Len(attempted) = 4
    /\ ~Accepted(attempted[2])

----------------------------------------------------------------------------
(* C13 *)

\* C13: when process_page accepts a page in non-sitemap mode (no depth limit
\* configured), every in-scope link of the page that is not yet visited is in
\* the frontier afterwards, the links inside the chrome regions included.
C13_LinksExtractedBeforeStripping ==
    [][ (/\ pc = "process"
         /\ ~options.use_sitemap
         /\ options.max_depth = NoneDepth
         /\ outcome' = "ok") =>
            \A h \in LinkedFrom(current_url) :
               h \notin visited_urls => h \in SeqRange(to_visit') ]_vars

----------------------------------------------------------------------------
(* C14 *)

\* the sitemap cannot be retrieved: the explicit sitemap URL does not answer,
\* or none was given and no standard location answers
SitemapUnreachable ==
    IF options.sitemap_url # ""
    THEN ~SitemapAnswers(options.sitemap_url)
    ELSE \A i \in 1..Len(sitemap_candidates) : ~SitemapAnswers(sitemap_candidates[i])

\* C14: in sitemap mode with a sitemap that cannot be retrieved, run() returns
\* False, whatever the output format.
C14_UnreachableSitemapFails ==
    (options.use_sitemap /\ SitemapUnreachable /\ pc = "done") => ret = FALSE

----------------------------------------------------------------------------
(* C15 *)

\* the sitemap the run starts from: the explicit URL, or the first standard
\* location that answers
SitemapRoots ==
    IF options.sitemap_url # "" THEN {options.sitemap_url}
    ELSE { sitemap_candidates[i] : i \in { j \in 1..Len(sitemap_candidates) :
              /\ SitemapAnswers(sitemap_candidates[j])
              /\ \A k \in 1..(j - 1) : ~SitemapAnswers(sitemap_candidates[k]) } }

\* the sitemaps reached from a set of sitemaps through at most n index documents
RECURSIVE SitemapsWithin(_, _)
SitemapsWithin(names, n) ==
    IF n = 0 THEN names
    ELSE LET near == SitemapsWithin(names, n - 1) IN
         near \cup UNION { SeqRange(site.sitemaps[m].children) :
                             m \in { k \in near : SitemapAnswers(k)
                                                   /\ site.sitemaps[k].kind = "index" } }

\* the URLs the leaf sitemaps so reached list, those in scope
ListedInScope ==
    { u \in UNION { SeqRange(site.sitemaps[m].locs) :
                      m \in { k \in SitemapsWithin(SitemapRoots, Cardinality(DOMAIN site.sitemaps)) :
                                SitemapAnswers(k) /\ site.sitemaps[k].kind = "urlset" } } :
        InScope(u) }

SitemapCrawl == options.use_sitemap /\ ~options.interactive

\* C15: in sitemap mode without interaction every URL the drain loop fetches is
\* an in-scope URL listed by a leaf sitemap reached from the sitemap, no step
\* of the drain loop makes the frontier longer, and process_page leaves
\* to_visit as it was.
C15_SitemapFrontierNotExtended ==
    /\ [](SitemapCrawl => visited_urls \subseteq ListedInScope)
    /\ [][ (SitemapCrawl /\ Draining) =>
              /\ Len(to_visit') <= Len(to_visit)
              /\ pc = "process" => to_visit' = to_visit ]_vars

\* a listed page that links an unlisted page was accepted, the loop ended with
\* budget left and the unlisted page was not fetched
C15_Witness ==
    /\ SitemapCrawl
    /\ pc = "render"
    /\ PageA \in visited_urls
    /\ PageOutcome(PageA) = "ok"
    /\ PageC \in LinkedFrom(PageA)
    /\ PageC \notin visited_urls
    /\ Cardinality(visited_urls) < options.max_pages

----------------------------------------------------------------------------
(* C16 *)

\* C16: the drain loop, once entered, ends; when it ends the frontier is empty
\* or |visited_urls| is max_pages; and after it has ended no page is fetched.
C16_DrainLoopTerminates ==
    /\ (pc = "loop") ~> (pc = "render")
    /\ [][ (pc = "loop" /\ pc' = "render") =>
              (to_visit = << >> \/ Cardinality(visited_urls) = options.max_pages) ]_vars
    /\ [][ Drained => (/\ net_requests' = net_requests
                       /\ attempted' = attempted
                       /\ visited_urls' = visited_urls
                       /\ pc' \in {"render", "done"}) ]_vars

\* the loop ended on the budget with URLs left in the frontier, on a site
\* whose pages link back to pages already visited
C16_Witness ==
    /\ pc = "render"
    /\ to_visit # << >>
    /\ Cardinality(visited_urls) = options.max_pages
    /\ \E u \in visited_urls : LinkedFrom(u) \cap visited_urls # {}

----------------------------------------------------------------------------
(* C17 *)

\* the URLs enqueued so far in the drain phase: those still queued and those
\* dequeued
Enqueued == SeqRange(to_visit) \cup visited_urls

\* C17: outside sitemap mode, of the URLs that differ only in their fragment
\* at most one is enqueued and at most one is fetched.
C17_OneUrlPerFragmentClass ==
    (~options.use_sitemap /\ Draining) =>
        \A u, v \in Enqueued : StripFragment(u) = StripFragment(v) => u = v

----------------------------------------------------------------------------
(* C18 *)

\* the anchor of a title in words: character by character, a space becomes a
\* hyphen, a colon or a period is left out, a letter becomes its lower case
RECURSIVE AnchorInWords(_)
AnchorInWords(title) ==
    IF title = << >> THEN << >>
    ELSE LET c == Head(title) IN
         (IF c = " " THEN <<"-">>
          ELSE IF c \in {":", "."} THEN << >>
          ELSE IF c = "A" THEN <<"a">>
          ELSE IF c = "B" THEN <<"b">>
          ELSE <<c>>) \o AnchorInWords(Tail(title))

\* C18: in the Markdown file every section written carries the anchor of its
\* record's title as its id, every table-of-contents line written links the
\* anchor of its record's title, and so the link of a record is the id of the
\* record's section.
C18_MarkdownAnchor ==
    call.fn = "create_markdown" =>
        /\ \A i \in 1..Len(artifact.sections) :
              /\ artifact.sections[i].title = contents[i].title
              /\ artifact.sections[i].id = AnchorInWords(contents[i].title)
        /\ \A i \in 1..Len(artifact.toc) :
              /\ artifact.toc[i].title = contents[i].title
              /\ artifact.toc[i].target = AnchorInWords(contents[i].title)
              /\ i <= Len(artifact.sections) =>
                    artifact.toc[i].target = artifact.sections[i].id
        /\ ret = TRUE =>
              /\ Len(artifact.sections) = Len(contents)
              /\ options.create_toc => Len(artifact.toc) = Len(contents)

\* a title with an upper-case letter, a space and a period, in a file with a
\* table of contents
C18_Witness ==
    /\ call.fn = "create_markdown"
    /\ ret = TRUE
    /\ Len(artifact.toc) = 1
    /\ artifact.sections[1].title = <<"A", " ", ".">>
    /\ artifact.sections[1].id = <<"a", "-">>
    /\ artifact.toc[1].target = <<"a", "-">>

----------------------------------------------------------------------------
(* C19 *)

\* the URLs in the order they were enqueued: those processed, the one being
\* processed, those still queued
EnqueueOrder ==
    attempted \o (IF pc = "process" THEN <<current_url>> ELSE << >>) \o to_visit

IsPrefix(s, t) == Len(s) <= Len(t) /\ SubSeq(t, 1, Len(s)) = s

\* the number of links of the shortest chain of links extracted from accepted
\* pages that leads from the seed to a URL
FollowDistance(url) ==
    IF \E n \in 0..Far : url \in Following({base_url}, n)
    THEN CHOOSE n \in 0..Far : /\ url \in Following({base_url}, n)
                               /\ \A m \in 0..(n - 1) : url \notin Following({base_url}, m)
    ELSE Far

\* C19: in link-crawl mode with no depth limit, a URL enqueued keeps its place
\* behind the URLs enqueued before it until it is attempted, and the URLs are
\* attempted in nondecreasing distance from the seed.
C19_BreadthFirstOrder ==
    /\ [][ (LinkCrawl /\ options.max_depth = NoneDepth /\ Draining) =>
              IsPrefix(EnqueueOrder, EnqueueOrder') ]_vars
    /\ []( (LinkCrawl /\ options.max_depth = NoneDepth) =>
              \A i, j \in 1..Len(attempted) :
                 i < j => FollowDistance(attempted[i]) <= FollowDistance(attempted[j]) )

\* the seed, its two children and a grandchild were attempted in this order
C19_Witness ==
    /\ LinkCrawl /\ options.max_depth = NoneDepth
    /\ Len(attempted) = 4
    /\ FollowDistance(attempted[2]) = 1
    /\ FollowDistance(attempted[3]) = 1
    /\ FollowDistance(attempted[4]) = 2
    /\ attempted[4] \in FollowedFrom(attempted[2])

----------------------------------------------------------------------------
(* C20 *)

\* the discovery pre-crawl of interactive_mode is running or has ended and the
\* selection is not yet returned
Discovering == ~options.use_sitemap /\ pc \in {"discover", "select"}

\* C20: until the selection is returned the discovery pre-crawl has fetched at
\* most max_pages pages and visited_urls, contents, pdf_elements and the
\* converter's to_visit are as the constructor left them; and a discovery step
\* that downloads a page queues every in-scope link of the page not yet
\* discovered, whatever the content and category filters say of the page (no
\* depth limit configured).
C20_DiscoveryFrame ==
    /\ []( Discovering =>
              /\ net_requests <= options.max_pages
              /\ Len(discovered_urls) = net_requests
              /\ visited_urls = {}
              /\ contents = << >>
              /\ pdf_elements = << >>
              /\ to_visit = <<base_url>> )
    /\ [][ (/\ pc = "discover"
             /\ options.max_depth = NoneDepth
             /\ net_requests' = net_requests + 1
             /\ download_page(Head(disc_to_visit))) =>
               \A h \in LinkedFrom(Head(disc_to_visit)) :
                  h \in temp_visited' \/ h \in SeqRange(disc_to_visit') ]_vars

\* the seed is a page the keyword filter rejects; its links were discovered
C20_Witness ==
    /\ Discovering
    /\ pc = "select"
    /\ options.max_depth = NoneDepth
    /\ PageOutcome(Seed) = "kw_rejected"
    /\ Len(discovered_urls) = 3
    /\ net_requests = 3

----------------------------------------------------------------------------
(* C21 *)

\* C21: a call of is_valid_url leaves visited_urls, to_visit and contents as
\* they were; it changes url_depth only when it returns true, a parent was
\* given and max_depth is configured; and with max_depth unset url_depth is
\* {seed: 0} throughout.
C21_IsValidUrlFrame ==
    /\ [][ call'.fn = "is_valid_url" =>
              /\ visited_urls' = visited_urls
              /\ to_visit' = to_visit
              /\ contents' = contents
              /\ url_depth' # url_depth =>
                    /\ ret' = TRUE
                    /\ call'.from_url # NoUrl
                    /\ options.max_depth # NoneDepth
              /\ ret' = FALSE => url_depth' = url_depth ]_vars
    /\ [](options.max_depth = NoneDepth => url_depth = [u \in {base_url} |-> 0])

\* a candidate in scope was rejected for its parent's depth, after earlier
\* calls had recorded depths
C21_Witness ==
    /\ call.fn = "is_valid_url"
    /\ options.max_depth # NoneDepth
    /\ call.from_url # NoUrl
    /\ InScope(call.url)
    /\ ret = FALSE
    /\ Cardinality(DOMAIN url_depth) >= 3
    /\ url_depth = call.depth

----------------------------------------------------------------------------
(* C22 *)

\* every URL held by the frontier or visited, the seed aside, is in scope
FrontierInScope ==
    \A u \in (SeqRange(to_visit) \cup visited_urls) \ {base_url} : InScope(u)

\* C22: in every state and seeding mode no URL of the frontier to_visit is in
\* visited_urls, and every URL of to_visit or visited_urls other than the seed
\* is in scope.
C22_FrontierInvariants ==
    /\ \A i \in 1..Len(to_visit) : to_visit[i] \notin visited_urls
    /\ FrontierInScope

----------------------------------------------------------------------------
(* C23 *)

\* the in-scope URLs of the site: those a chain of links reaches from the seed
SiteUrls == Within({base_url}, Far)

\* every page of the site is downloaded and passes the filters
AllAccepted == \A u \in SiteUrls : PageOutcome(u) = "ok"

\* C23: in link-crawl mode with max_depth = D, a page budget larger than the
\* site and every page accepted, when the drain loop has ended every in-scope
\* URL within D links of the seed was fetched.
C23_DepthBoundedCompleteness ==
    (/\ LinkCrawl
     /\ options.max_depth # NoneDepth
     /\ options.max_pages > Cardinality(SiteUrls)
     /\ AllAccepted
     /\ Drained) =>
        \A u \in Within({base_url}, options.max_depth) : u \in visited_urls

----------------------------------------------------------------------------
(* C24 *)

\* C24: no step changes or removes the depth recorded for a URL: the seed's
\* depth stays 0 and a URL discovered again from another parent keeps its depth.
C24_DepthStability ==
    [][ \A u \in DOMAIN url_depth :
           u \in DOMAIN url_depth' /\ url_depth'[u] = url_depth[u] ]_vars

----------------------------------------------------------------------------
(* C25 *)

\* the URLs the user selected: the frontier run() received from interactive_mode
Selected == SeqRange(frontier0)

\* C25: in interactive mode, with or without the sitemap, every URL the drain
\* loop fetches and every record of contents is a URL the user selected.
C25_SelectionRespected ==
    (options.interactive /\ (Draining \/ Drained)) =>
        /\ visited_urls \subseteq Selected
        /\ ContentsKeys(contents) \subseteq Selected

----------------------------------------------------------------------------
(* C26 *)

\* the URLs whose elements were appended to pdf_elements
ElementUrls == {pdf_elements[i].url : i \in 1..Len(pdf_elements)}

\* C26: a process_page call that returns no elements leaves contents without a
\* record for the URL and the frontier as it was; and the URLs with a record in
\* contents are the URLs whose elements are in pdf_elements.
C26_PerPageAtomicity ==
    /\ [][ (pc = "process" /\ pc' = "loop" /\ pdf_elements' = pdf_elements) =>
              /\ current_url \notin ContentsKeys(contents')
              /\ to_visit' = to_visit ]_vars
    /\ [](ContentsKeys(contents) = ElementUrls)

----------------------------------------------------------------------------
(* C27 *)

\* C27: when run() has returned and the drain loop accepted no page, format pdf
\* gave False and no file, and format html, json, md or markdown gave True and
\* a file without page sections.
C27_EmptyCrawlRenderOutcome ==
    (pc = "done" /\ AcceptedOf(attempted) = << >>) =>
        /\ LowerFormat(options.format) = "pdf" =>
              (ret = FALSE /\ ~artifact.written)
        /\ LowerFormat(options.format) \in {"html", "json", "md", "markdown"} =>
              (ret = TRUE /\ artifact.written /\ artifact.pages = << >>)

\* the only page attempted was rejected and the Markdown file was written
C27_Witness ==
    /\ pc = "done"
    /\ options.format = "md"
    /\ Len(attempted) = 1
    /\ ~Accepted(attempted[1])
    /\ ret = TRUE
    /\ artifact.written /\ artifact.pages = << >>

====
